---- MODULE Spec2Model ----
(***************************************************************************)
(* Slotted data pages of mmdb (src/src/data_page.rs, buf.rs, constants.rs). *)
(* A Page is a 16-byte header and a 4080-byte body; DataPage is a borrowed  *)
(* view of a Page.  put/split decode the body, rebuild a new body with      *)
(* write_new_page and return a new Page.  A Rust panic (unwrap/expect on    *)
(* None, slice index out of range, arithmetic overflow in a build with      *)
(* overflow checks) is the outcome [tag |-> "Panic"].                       *)
(*                                                                         *)
(* Spec:      put, split, get, has_space, read_node_from_offset on the page *)
(*            a chain of puts builds from the empty page.                   *)
(* TreeSpec:  PgnoGenerator and Page::read_from_mmap (page.rs),             *)
(*            LeafPage::split (leaf.rs), BranchPage::get (btree_page.rs).   *)
(* OrderSpec: two puts on one page, taken in both orders.                   *)
(***************************************************************************)
EXTENDS Integers, Sequences, FiniteSets, TLC

\* ---- constants.rs ----
PAGE_HEADER_SIZE == 16
PAGE_SIZE == 4096
PAGE_BUF_SIZE == PAGE_SIZE - PAGE_HEADER_SIZE
\* size_of::<usize>() on a 64-bit target
USIZE_N == 8
U16_N == 2
\* PageFlag / NodeFlag bits
ALIVE == 1
DIRTY == 2
\* u16 arithmetic wraps modulo this
U16_MOD == 65536

\* ---- bounds of the model ----
\* length of the one large value the inputs contain
BigLen == 4039
\* byte the large value is filled with
FillByte == 0
\* number of page numbers the callers draw from
NumPgnos == 2
\* calls of get_free in one run
MaxIssued == 3
\* length of a value that fills half a body
HalfLen == 2040

Fill(n, b) == [i \in 1..n |-> b]
Keys == {<<1>>, <<1, 2>>, <<2>>}
Datas == {<<>>, <<7>>, Fill(BigLen, FillByte)}
Pgnos == 0..(NumPgnos - 1)
\* offsets handed to the public read_node_from_offset
Offsets == {0, 1, 2, PAGE_BUF_SIZE - 20, PAGE_BUF_SIZE - 19, PAGE_BUF_SIZE - 18,
            PAGE_BUF_SIZE - 2, PAGE_BUF_SIZE - 1, PAGE_BUF_SIZE}

Panic == [tag |-> "Panic"]
Ok(v) == [tag |-> "Ok", val |-> v]
Err(e) == [tag |-> "Err", err |-> e]
None == [tag |-> "None"]
Some(v) == [tag |-> "Some", val |-> v]

\* ---- integer encodings ----
\* uN::to_le_bytes: n little-endian bytes of v
RECURSIVE to_le_bytes(_, _)
to_le_bytes(v, n) ==
    IF n = 0 THEN <<>> ELSE <<v % 256>> \o to_le_bytes(v \div 256, n - 1)

\* uN::from_le_bytes.  Every region is PAGE_BUF_SIZE bytes, so a value of
\* U16_MOD or more fails every bounds check the same way; such values are all
\* represented by U16_MOD (the exact 64-bit value is never needed).
RECURSIVE from_le_bytes(_)
from_le_bytes(bytes) ==
    IF bytes = <<>> THEN 0
    ELSE LET hi == from_le_bytes(Tail(bytes)) IN
         IF hi >= 256 THEN U16_MOD ELSE hi * 256 + Head(bytes)

\* ---- buf.rs: ByteBuf for [u8] ----
\* self.get(offset..offset + n).  A byte region is a sequence; the byte at
\* Rust index i is element i + 1.
read_n_bytes(data, offset, n) ==
    IF offset + n <= Len(data)
    THEN Some(SubSeq(data, offset + 1, offset + n))
    ELSE None

read_u16_le(data, offset) ==
    LET d == read_n_bytes(data, offset, 2) IN
    IF d.tag = "None" THEN None ELSE Some(from_le_bytes(d.val))

read_usize_le(data, offset) ==
    LET d == read_n_bytes(data, offset, USIZE_N) IN
    IF d.tag = "None" THEN None ELSE Some(from_le_bytes(d.val))

\* as_u16_slice: the bytes reinterpreted as little-endian u16 values
as_u16_slice(bytes) ==
    [i \in 1..(Len(bytes) \div 2) |-> bytes[2 * i - 1] + 256 * bytes[2 * i]]

\* ---- bitflags: NodeFlag::from_bits ----
NodeFlag_from_bits(bits) ==
    IF bits \in 0..(ALIVE + DIRTY) THEN Some(bits) ELSE None

\* ---- <[u8] as Ord>::cmp: byte-lexicographic, a strict prefix is Less ----
Min(S) == CHOOSE x \in S : \A y \in S : x <= y
cmp(a, b) ==
    LET n == IF Len(a) < Len(b) THEN Len(a) ELSE Len(b)
        diff == {i \in 1..n : a[i] # b[i]}
    IN IF diff # {}
       THEN (IF a[Min(diff)] < b[Min(diff)] THEN "Less" ELSE "Greater")
       ELSE IF Len(a) < Len(b) THEN "Less"
       ELSE IF Len(a) > Len(b) THEN "Greater"
       ELSE "Equal"

\* ---- data_page.rs: DataNode ----
DataNode_from(key, data) ==
    [flags |-> ALIVE, key_size |-> Len(key), data_size |-> Len(data),
     key |-> key, data |-> data]

\* pack with the two size fields written in the wrong order
pack_sizes_swapped(node) ==
    to_le_bytes(node.flags, U16_N) \o to_le_bytes(node.data_size, USIZE_N)
      \o to_le_bytes(node.key_size, USIZE_N) \o node.key \o node.data

pack(node) ==
    to_le_bytes(node.flags, U16_N) \o to_le_bytes(node.key_size, USIZE_N)
      \o to_le_bytes(node.data_size, USIZE_N) \o node.key \o node.data

get_size(node) == node.key_size + node.data_size + 2 * USIZE_N + 2

\* ---- page.rs: Page ----
Page_from(pgno, pad, flags, lower, upper, data) ==
    [pgno |-> pgno, pad |-> pad, flags |-> flags, lower |-> lower,
     upper |-> upper, data |-> data]

\* ---- data_page.rs: DataPage ----
\* &data[..offsets_end] panics when lower exceeds the body
get_node_offset(data, lower) ==
    IF lower > Len(data) THEN Panic
    ELSE Ok(as_u16_slice(SubSeq(data, 1, lower)))

read_node_from_offset(data, offset) ==
    LET f == read_u16_le(data, offset) IN
    IF f.tag = "None" THEN Panic ELSE
    LET flags == NodeFlag_from_bits(f.val) IN
    IF flags.tag = "None" THEN Panic ELSE
    LET ks == read_usize_le(data, offset + U16_N) IN
    IF ks.tag = "None" THEN Panic ELSE
    LET ds == read_usize_le(data, offset + U16_N + USIZE_N) IN
    IF ds.tag = "None" THEN Panic ELSE
    LET key_start == offset + U16_N + USIZE_N * 2
        key == read_n_bytes(data, key_start, ks.val) IN
    IF key.tag = "None" THEN Panic ELSE
    LET dat == read_n_bytes(data, key_start + ks.val, ds.val) IN
    IF dat.tag = "None" THEN Panic ELSE
    Ok([flags |-> flags.val, key_size |-> ks.val, data_size |-> ds.val,
        key |-> key.val, data |-> dat.val])


DataPage_from(page) ==
    LET offs == get_node_offset(page.data, page.lower) IN
    IF offs.tag = "Panic" THEN Panic
    ELSE Ok([pgno |-> page.pgno, flags |-> page.flags, lower |-> page.lower,
             upper |-> page.upper, offsets |-> offs.val, data |-> page.data])

\* ---- core::slice::binary_search_by (Rust >= 1.82) ----
\* cs[i + 1] is the comparator's outcome on element i: "Less", "Equal",
\* "Greater", or "Panic" when the comparator panics.  Only probed elements
\* are looked at.
Found(idx) == [tag |-> "Found", idx |-> idx]
NotFound(idx) == [tag |-> "NotFound", idx |-> idx]
RECURSIVE binary_search_loop(_, _, _)
binary_search_loop(cs, base, size) ==
    IF size > 1
    THEN LET half == size \div 2
             mid == base + half
             c == cs[mid + 1]
         IN IF c = "Panic" THEN Panic
            ELSE binary_search_loop(cs, IF c = "Greater" THEN base ELSE mid,
                                    size - half)
    ELSE LET c == cs[base + 1] IN
         IF c = "Panic" THEN Panic
         ELSE IF c = "Equal" THEN Found(base)
         ELSE NotFound(base + (IF c = "Less" THEN 1 ELSE 0))

binary_search_by(cs) ==
    IF Len(cs) = 0 THEN NotFound(0) ELSE binary_search_loop(cs, 0, Len(cs))

\* the comparator of get_node: decode the node of a slot, compare its key
get_node_probe(self, key, i) ==
    LET node == read_node_from_offset(self.data, self.offsets[i]) IN
    IF node.tag = "Panic" THEN "Panic" ELSE cmp(node.val.key, key)

get_node(self, key) ==
    LET r == binary_search_by([i \in 1..Len(self.offsets) |->
                                  get_node_probe(self, key, i)])
    IN IF r.tag = "Panic" THEN Panic
       ELSE IF r.tag = "NotFound" THEN Err("KeyNotFound")
       ELSE read_node_from_offset(self.data, self.offsets[r.idx + 1])

get(self, key) ==
    LET maybe_node == get_node(self, key) IN
    IF maybe_node.tag = "Ok" THEN Ok(maybe_node.val.data) ELSE maybe_node

\* self.upper - self.lower is a u16 subtraction: with lower > upper it
\* panics in a build with overflow checks and wraps in one without
has_space(self, new_node, checks) ==
    IF self.upper < self.lower /\ checks THEN Panic
    ELSE LET remaining_space == (self.upper - self.lower + U16_MOD) % U16_MOD
         IN Ok(remaining_space > get_size(new_node))

\* page_data_buf[start .. start + len].copy_from_slice(bytes)
copy_from_slice(buf, start, bytes) ==
    SubSeq(buf, 1, start) \o bytes \o SubSeq(buf, start + Len(bytes) + 1, Len(buf))

RECURSIVE write_nodes(_, _, _, _), write_nodes_stale_offset(_, _, _, _)
\* the loop with each slot written before upper is moved down
write_nodes_stale_offset(nodes, buf, lower, upper) ==
    IF nodes = <<>> THEN Ok([buf |-> buf, lower |-> lower, upper |-> upper])
    ELSE LET node_bytes == pack(Head(nodes)) IN
         IF Len(node_bytes) > upper THEN Panic
         ELSE LET buf1 == copy_from_slice(buf, upper - Len(node_bytes), node_bytes)
                  offset == to_le_bytes(upper % U16_MOD, U16_N)
              IN IF lower + U16_N > PAGE_BUF_SIZE THEN Panic
                 ELSE write_nodes_stale_offset(Tail(nodes),
                                               copy_from_slice(buf1, lower, offset),
                                               lower + 2, upper - Len(node_bytes))

\* the loop of write_new_page over the remaining nodes
write_nodes(nodes, buf, lower, upper) ==
    IF nodes = <<>> THEN Ok([buf |-> buf, lower |-> lower, upper |-> upper])
    ELSE LET node_bytes == pack(Head(nodes)) IN
         \* upper - node_bytes.len() underflows (or the slice start wraps
         \* past its end): a panic in every build
         IF Len(node_bytes) > upper THEN Panic
         ELSE LET buf1 == copy_from_slice(buf, upper - Len(node_bytes), node_bytes)
                  upper1 == upper - Len(node_bytes)
                  offset == to_le_bytes(upper1 % U16_MOD, U16_N)
              IN IF lower + U16_N > PAGE_BUF_SIZE THEN Panic
                 ELSE write_nodes(Tail(nodes), copy_from_slice(buf1, lower, offset),
                                  lower + 2, upper1)

\* [0u8; PAGE_BUF_SIZE]
ZeroBuf == [i \in 1..PAGE_BUF_SIZE |-> 0]

write_new_page(pgno, nodes) ==
    LET w == write_nodes(nodes, ZeroBuf, 0, PAGE_BUF_SIZE) IN
    IF w.tag = "Panic" THEN Panic
    ELSE Ok(Page_from(pgno, 0, ALIVE, w.val.lower % U16_MOD, w.val.upper % U16_MOD,
                      w.val.buf))

\* self.offsets.iter().map(read_node_from_offset).collect()
collect_nodes(self) ==
    LET ns == [i \in 1..Len(self.offsets) |->
                  read_node_from_offset(self.data, self.offsets[i])]
    IN IF \E i \in DOMAIN ns : ns[i].tag = "Panic" THEN Panic
       ELSE Ok([i \in DOMAIN ns |-> ns[i].val])

\* Vec::insert(idx, x), idx 0-based
Vec_insert(v, idx, x) == SubSeq(v, 1, idx) \o <<x>> \o SubSeq(v, idx + 1, Len(v))

put(self, new_pgno, key, data) ==
    LET c == collect_nodes(self) IN
    IF c.tag = "Panic" THEN Panic ELSE
    LET nodes == c.val
        r == binary_search_by([i \in DOMAIN nodes |-> cmp(nodes[i].key, key)])
        nodes1 == IF r.tag = "Found"
                  THEN SubSeq(nodes, 1, r.idx) \o <<DataNode_from(key, data)>>
                         \o SubSeq(nodes, r.idx + 2, Len(nodes))
                  ELSE Vec_insert(nodes, r.idx, DataNode_from(key, data))
    IN write_new_page(new_pgno, nodes1)

\* split with the midpoint rounded up instead of down
split_mid_rounded_up(self, pgno_left, pgno_right) ==
    LET c == collect_nodes(self) IN
    IF c.tag = "Panic" THEN Panic ELSE
    LET nodes == c.val
        mid == (Len(nodes) + 1) \div 2
        left_page == write_new_page(pgno_left, SubSeq(nodes, 1, mid))
        right_page == write_new_page(pgno_right, SubSeq(nodes, mid + 1, Len(nodes)))
    IN IF left_page.tag = "Panic" \/ right_page.tag = "Panic" THEN Panic
       ELSE Ok([left |-> left_page.val, right |-> right_page.val])

split(self, pgno_left, pgno_right) ==
    LET c == collect_nodes(self) IN
    IF c.tag = "Panic" THEN Panic ELSE
    LET nodes == c.val
        mid == Len(nodes) \div 2
        left_page == write_new_page(pgno_left, SubSeq(nodes, 1, mid))
        right_page == write_new_page(pgno_right, SubSeq(nodes, mid + 1, Len(nodes)))
    IN IF left_page.tag = "Panic" \/ right_page.tag = "Panic" THEN Panic
       ELSE Ok([left |-> left_page.val, right |-> right_page.val])


\* ---- 64-bit integers (Pgno = u64, usize) ----
\* a 64-bit value is its four 16-bit limbs, least significant first
U64(n) == <<n % U16_MOD, (n \div U16_MOD) % U16_MOD, 0, 0>>
U64_MAX == <<U16_MOD - 1, U16_MOD - 1, U16_MOD - 1, U16_MOD - 1>>

\* a * c + k limb by limb, with the carry out of the top limb
RECURSIVE mul_add(_, _, _)
mul_add(a, c, k) ==
    IF a = <<>> THEN [val |-> <<>>, carry |-> k]
    ELSE LET t == Head(a) * c + k
             r == mul_add(Tail(a), c, t \div U16_MOD)
         IN [val |-> <<t % U16_MOD>> \o r.val, carry |-> r.carry]
\* u64::overflowing_add / overflowing_mul with a small right operand
overflowing_add(a, n) ==
    LET r == mul_add(a, 1, n) IN [val |-> r.val, overflow |-> r.carry > 0]
overflowing_mul(a, c) ==
    LET r == mul_add(a, c, 0) IN [val |-> r.val, overflow |-> r.carry > 0]
\* u64::cmp
RECURSIVE U64_cmp(_, _)
U64_cmp(a, b) ==
    IF a = <<>> THEN "Equal"
    ELSE LET hi == U64_cmp(Tail(a), Tail(b)) IN
         IF hi # "Equal" THEN hi
         ELSE IF Head(a) < Head(b) THEN "Less"
         ELSE IF Head(a) > Head(b) THEN "Greater" ELSE "Equal"
\* the value of a u64 that is a valid index into a mapped region of the model
U64_index(a) == a[1] + a[2] * U16_MOD
\* u64::from_le_bytes of 8 bytes
U64_from_le_bytes(bytes) ==
    <<bytes[1] + 256 * bytes[2], bytes[3] + 256 * bytes[4],
      bytes[5] + 256 * bytes[6], bytes[7] + 256 * bytes[8]>>

\* ---- page.rs: Key ----
Normal(v) == [tag |-> "Normal", val |-> v]
Sentinel == [tag |-> "Sentinel"]
\* impl Ord for Key
Key_cmp(self, other) ==
    IF self.tag = "Sentinel" /\ other.tag = "Sentinel" THEN "Equal"
    ELSE IF self.tag = "Sentinel" THEN "Greater"
    ELSE IF other.tag = "Sentinel" THEN "Less"
    ELSE cmp(self.val, other.val)

\* ---- btree_page.rs: BranchPage ----
\* BranchPage::get: the body is todo!()
BranchPage_get(self, key) == Panic

\* ---- page.rs: PgnoGenerator ----
create(pgno) == [pgno |-> pgno]
\* self.pgno += 1; self.pgno.  The addition overflows at u64::MAX: a panic in
\* a build with overflow checks, a wrap to 0 otherwise.
get_free(self, checks) ==
    LET r == overflowing_add(self.pgno, 1) IN
    IF r.overflow /\ checks THEN Panic
    ELSE Ok([self |-> [pgno |-> r.val], ret |-> r.val])

\* ---- leaf.rs: LeafPage ----
\* LeafPage::write_new_page.  upper starts at PAGE_SIZE while page_data_buf is
\* PAGE_BUF_SIZE long, so the first node's slice ends out of range.  The
\* fields leaf.rs names top and bottom are the loop's lower and upper.
LeafPage_write_new_page(nodes, pgno) ==
    IF nodes # <<>> /\ PAGE_SIZE > PAGE_BUF_SIZE THEN Panic
    ELSE Ok(Page_from(pgno, 0, ALIVE, 0, PAGE_SIZE, ZeroBuf))
\* LeafPage::split(&self, pgno_generator)
LeafPage_split(nodes, pgno_generator, checks) ==
    LET mid == Len(nodes) \div 2
        g1 == get_free(pgno_generator, checks)
    IN IF g1.tag = "Panic" THEN Panic ELSE
       LET left_page == LeafPage_write_new_page(SubSeq(nodes, 1, mid), g1.val.ret)
       IN IF left_page.tag = "Panic" THEN Panic ELSE
          LET g2 == get_free(g1.val.self, checks)
          IN IF g2.tag = "Panic" THEN Panic ELSE
             LET right_page == LeafPage_write_new_page(
                                   SubSeq(nodes, mid + 1, Len(nodes)), g2.val.ret)
             IN IF right_page.tag = "Panic" THEN Panic
                ELSE Ok([self |-> g2.val.self,
                         left |-> left_page.val, right |-> right_page.val])

\* ---- page.rs: Page::read_from_mmap ----
\* ptr::read_unaligned of a #[repr(C)] Page on a little-endian target
read_unaligned(page_bytes) ==
    Page_from(U64_from_le_bytes(SubSeq(page_bytes, 1, 8)),
              from_le_bytes(SubSeq(page_bytes, 9, 10)),
              from_le_bytes(SubSeq(page_bytes, 11, 12)),
              from_le_bytes(SubSeq(page_bytes, 13, 14)),
              from_le_bytes(SubSeq(page_bytes, 15, 16)),
              SubSeq(page_bytes, PAGE_HEADER_SIZE + 1, PAGE_SIZE))
\* start and end overflow the machine word for large pgno: a panic in a build
\* with overflow checks, a wrap otherwise.  mmap.get(start..end) is None when
\* start > end or end > mmap.len().
read_from_mmap(m, pgno, checks) ==
    LET start == overflowing_mul(pgno, PAGE_SIZE)
        end == overflowing_add(start.val, PAGE_SIZE)
    IN IF checks /\ (start.overflow \/ end.overflow) THEN Panic
       ELSE IF \/ U64_cmp(start.val, end.val) = "Greater"
               \/ U64_cmp(end.val, U64(Len(m))) = "Greater"
            THEN Err("UnexpectedEof")
            ELSE Ok(read_unaligned(SubSeq(m, U64_index(start.val) + 1,
                                          U64_index(end.val))))


\* ---- sizes of the caller's key-to-data map ----
\* packed size of the node put(key, data) writes
PackedSize(key, data) == 2 + 2 * USIZE_N + Len(key) + Len(data)
\* bytes the nodes and slots of a key-to-data map need in a body
RECURSIVE Sum(_, _)
Sum(f, S) == IF S = {} THEN 0
             ELSE LET x == CHOOSE y \in S : TRUE IN f[x] + Sum(f, S \ {x})
Needed(h) ==
    Sum([k \in Keys |-> IF h[k].tag = "Some"
                        THEN PackedSize(k, h[k].val) + U16_N ELSE 0], Keys)
\* the keys of a set in ascending order
RECURSIVE SortedKeys(_)
SortedKeys(S) ==
    IF S = {} THEN <<>>
    ELSE LET m == CHOOSE k \in S : \A j \in S \ {k} : cmp(k, j) = "Less"
         IN <<m>> \o SortedKeys(S \ {m})
\* the key-ordered node list of a key-to-data map
NodeList(h) ==
    LET ks == SortedKeys({k \in Keys : h[k].tag = "Some"})
    IN [i \in DOMAIN ks |-> DataNode_from(ks[i], h[ks[i]].val)]

\* ---- the program state ----
\* page:            the Page the current DataPage view borrows
\* result:          the value the last call returned, until the caller lets go of it
\* hist:            per key, the data of the most recent put the page went through
\* last_key:        the key of the most recent put the page went through
\* checked:         every put of a new key so far was preceded by has_space = true
\* fits:            the nodes and slots of every page so far fitted the body
\* overflow_checks: whether the build panics on integer overflow
\* pgno_generator: the PgnoGenerator of the tree
\* seed:            the page number the generator was created with
\* issued:          the page numbers get_free returned so far, in call order
\* mmap:            the bytes of the mapped file
VARIABLES page, result, hist, last_key, checked, fits, overflow_checks,
          pgno_generator, seed, issued, mmap
page_vars == <<page, hist, last_key, checked, fits>>
store_vars == <<pgno_generator, seed, issued, mmap>>
vars == <<page, result, hist, last_key, checked, fits, overflow_checks,
          pgno_generator, seed, issued, mmap>>

Idle == [op |-> "none"]
Self == DataPage_from(page).val

Init ==
    /\ \E pgno \in Pgnos : page = write_new_page(pgno, <<>>).val
    /\ result = Idle
    /\ hist = [k \in Keys |-> None]
    /\ last_key = None
    /\ checked = TRUE
    /\ fits = TRUE
    /\ overflow_checks \in BOOLEAN
    /\ seed = U64(0)
    /\ pgno_generator = create(U64(0))
    /\ issued = <<>>
    /\ mmap = <<>>

\* a put that also stores the rebuilt page over its source
Put_in_place(new_pgno, key, data) ==
    /\ result = Idle
    /\ result' = [op |-> "put", pgno |-> new_pgno, key |-> key, data |-> data,
                  guarded |-> \/ hist[key].tag = "Some"
                              \/ has_space(Self, DataNode_from(key, data),
                                           overflow_checks) = Ok(TRUE),
                  ret |-> put(Self, new_pgno, key, data)]
    /\ page' = IF put(Self, new_pgno, key, data).tag = "Ok"
               THEN put(Self, new_pgno, key, data).val ELSE page
    /\ UNCHANGED <<hist, last_key, checked, fits, overflow_checks, store_vars>>

\* leaf_page.put(new_pgno, key, data)
Put(new_pgno, key, data) ==
    /\ result = Idle
    /\ result' = [op |-> "put", pgno |-> new_pgno, key |-> key, data |-> data,
                  guarded |-> \/ hist[key].tag = "Some"
                              \/ has_space(Self, DataNode_from(key, data),
                                           overflow_checks) = Ok(TRUE),
                  ret |-> put(Self, new_pgno, key, data)]
    /\ UNCHANGED <<page, hist, last_key, checked, fits, overflow_checks, store_vars>>

\* leaf_page.split(pgno_left, pgno_right)
Split(pgno_left, pgno_right) ==
    /\ result = Idle
    /\ result' = [op |-> "split", pgno_left |-> pgno_left, pgno_right |-> pgno_right,
                  ret |-> split(Self, pgno_left, pgno_right)]
    /\ UNCHANGED <<page, hist, last_key, checked, fits, overflow_checks, store_vars>>

\* leaf_page.get(key)
Get(key) ==
    /\ result = Idle
    /\ result' = [op |-> "get", key |-> key, ret |-> get(Self, key)]
    /\ UNCHANGED <<page, hist, last_key, checked, fits, overflow_checks, store_vars>>

\* leaf_page.has_space(DataNode::from(key, data))
HasSpace(key, data) ==
    /\ result = Idle
    /\ result' = [op |-> "has_space", key |-> key, data |-> data,
                  ret |-> has_space(Self, DataNode_from(key, data), overflow_checks)]
    /\ UNCHANGED <<page, hist, last_key, checked, fits, overflow_checks, store_vars>>

\* leaf_page.read_node_from_offset(offset)
ReadNode(offset) ==
    /\ result = Idle
    /\ result' = [op |-> "read_node", offset |-> offset,
                  ret |-> read_node_from_offset(Self.data, offset)]
    /\ UNCHANGED <<page, hist, last_key, checked, fits, overflow_checks, store_vars>>

\* leaf_page = DataPage::from(&page) on the page a put returned
From ==
    /\ result.op = "put"
    /\ result.ret.tag = "Ok"
    /\ DataPage_from(result.ret.val).tag = "Ok"
    /\ page' = result.ret.val
    /\ hist' = [hist EXCEPT ![result.key] = Some(result.data)]
    /\ last_key' = Some(result.key)
    /\ checked' = (checked /\ result.guarded)
    /\ fits' = (fits /\ Needed([hist EXCEPT ![result.key] = Some(result.data)])
                        <= PAGE_BUF_SIZE)
    /\ result' = Idle
    /\ UNCHANGED <<overflow_checks, store_vars>>

\* the returned value goes out of scope; a panic ends the program instead
Drop ==
    /\ result.op # "none"
    /\ result.ret.tag # "Panic"
    /\ result' = Idle
    /\ UNCHANGED <<page, hist, last_key, checked, fits, overflow_checks, store_vars>>

Next ==
    \/ \E new_pgno \in Pgnos, key \in Keys, data \in Datas : Put(new_pgno, key, data)
    \/ \E pgno_left \in Pgnos, pgno_right \in Pgnos : Split(pgno_left, pgno_right)
    \/ \E key \in Keys : Get(key)
    \/ \E key \in Keys, data \in Datas : HasSpace(key, data)
    \/ \E offset \in Offsets : ReadNode(offset)
    \/ From
    \/ Drop

Spec == Init /\ [][Next]_vars

\* ---- the tree's allocator, branch page and mapped file ----
\* u64::MAX - k
U64_below_max(k) == <<U16_MOD - 1 - k>> \o Tail(U64_MAX)
\* max_pgno values a meta page can hold when the generator is created
Seeds == {U64(0), U64(U16_MOD - 1), U64_below_max(2), U64_below_max(1), U64_MAX}
\* node lists of the leaf LeafPage::split is called on
LeafNodeLists == {<<>>, <<DataNode_from(<<1>>, <<7>>)>>,
                  <<DataNode_from(<<1>>, <<7>>), DataNode_from(<<2>>, <<>>)>>}
\* the bytes of a page in a mapped file: the #[repr(C)] layout of Page
page_bytes(p) ==
    to_le_bytes(p.pgno[1], U16_N) \o to_le_bytes(p.pgno[2], U16_N)
      \o to_le_bytes(p.pgno[3], U16_N) \o to_le_bytes(p.pgno[4], U16_N)
      \o to_le_bytes(p.pad, U16_N) \o to_le_bytes(p.flags, U16_N)
      \o to_le_bytes(p.lower, U16_N) \o to_le_bytes(p.upper, U16_N) \o p.data
\* mapped files: empty, one page, two pages, two pages less the last byte
MmapPages ==
    page_bytes(write_new_page(U64(0), <<>>).val)
      \o page_bytes(write_new_page(U64(1), <<DataNode_from(<<1>>, <<7>>)>>).val)
Mmaps == {<<>>, SubSeq(MmapPages, 1, PAGE_SIZE), MmapPages,
          SubSeq(MmapPages, 1, 2 * PAGE_SIZE - 1)}
\* page numbers read: 0, 1, 2, and the ones around 2^64 / PAGE_SIZE
ReadPgnos == {U64(0), U64(1), U64(2),
              <<U16_MOD - 1, U16_MOD - 1, U16_MOD - 1, U16_MOD \div PAGE_SIZE - 1>>,
              <<0, 0, 0, U16_MOD \div PAGE_SIZE>>,
              <<1, 0, 0, U16_MOD \div PAGE_SIZE>>,
              U64_MAX}
\* the branch page of the routing scenario: separators "d", "m" and the
\* sentinel, children P1, P2, P3
BranchNodes == <<[max_key |-> Normal(<<100>>), pgno |-> U64(1)],
                 [max_key |-> Normal(<<109>>), pgno |-> U64(2)],
                 [max_key |-> Sentinel, pgno |-> U64(3)]>>
\* the keys "b", "d", "e", "z"
BranchKeys == {<<98>>, <<100>>, <<101>>, <<122>>}

TreeInit ==
    /\ page = write_new_page(0, <<>>).val
    /\ result = Idle
    /\ hist = [k \in Keys |-> None]
    /\ last_key = None
    /\ checked = TRUE
    /\ fits = TRUE
    /\ overflow_checks \in BOOLEAN
    /\ seed \in Seeds
    /\ pgno_generator = create(seed)
    /\ issued = <<>>
    /\ mmap \in Mmaps

\* pgno_generator.get_free()
GetFree ==
    /\ result = Idle
    /\ Len(issued) < MaxIssued
    /\ LET r == get_free(pgno_generator, overflow_checks) IN
          /\ result' = [op |-> "get_free", before |-> pgno_generator.pgno,
                        ret |-> IF r.tag = "Ok" THEN Ok(r.val.ret) ELSE Panic]
          /\ pgno_generator' = IF r.tag = "Ok" THEN r.val.self ELSE pgno_generator
          /\ issued' = IF r.tag = "Ok" THEN Append(issued, r.val.ret) ELSE issued
    /\ UNCHANGED <<page_vars, overflow_checks, seed, mmap>>

\* leaf.split(&mut pgno_generator) on a leaf with the given nodes
LeafSplit(nodes) ==
    /\ result = Idle
    /\ Len(issued) + 2 <= MaxIssued
    /\ LET r == LeafPage_split(nodes, pgno_generator, overflow_checks) IN
          /\ result' = [op |-> "leaf_split", nodes |-> nodes,
                        ret |-> IF r.tag = "Ok"
                                THEN Ok([left |-> r.val.left, right |-> r.val.right])
                                ELSE Panic]
          /\ pgno_generator' = IF r.tag = "Ok" THEN r.val.self ELSE pgno_generator
          /\ issued' = IF r.tag = "Ok"
                       THEN issued \o <<r.val.left.pgno, r.val.right.pgno>>
                       ELSE issued
    /\ UNCHANGED <<page_vars, overflow_checks, seed, mmap>>

\* Page::read_from_mmap(&mmap, pgno)
ReadFromMmap(pgno) ==
    /\ result = Idle
    /\ result' = [op |-> "read_from_mmap", pgno |-> pgno,
                  ret |-> read_from_mmap(mmap, pgno, overflow_checks)]
    /\ UNCHANGED <<page_vars, overflow_checks, store_vars>>

\* branch_page.get(key)
BranchGet(key) ==
    /\ result = Idle
    /\ result' = [op |-> "branch_get", key |-> key,
                  ret |-> BranchPage_get(BranchNodes, key)]
    /\ UNCHANGED <<page_vars, overflow_checks, store_vars>>

TreeNext ==
    \/ GetFree
    \/ \E nodes \in LeafNodeLists : LeafSplit(nodes)
    \/ \E pgno \in ReadPgnos : ReadFromMmap(pgno)
    \/ \E key \in BranchKeys : BranchGet(key)
    \/ Drop

TreeSpec == TreeInit /\ [][TreeNext]_vars

\* ---- two puts in both orders ----
\* DataPage::from on the page the first put returned, then put(key, data) on it
put_next(r1, new_pgno, key, data) ==
    IF r1.tag # "Ok" THEN r1
    ELSE LET view == DataPage_from(r1.val) IN
         IF view.tag # "Ok" THEN Panic ELSE put(view.val, new_pgno, key, data)

OrderDatas == Datas \cup {Fill(HalfLen, FillByte)}
\* key-to-data maps whose nodes and slots fit a body
FittingMaps ==
    {h \in [Keys -> {None} \cup {Some(d) : d \in OrderDatas}] :
        Needed(h) <= PAGE_BUF_SIZE}

\* the page is the one the puts of a fitting map leave behind
OrderInit ==
    /\ hist \in FittingMaps
    /\ page = write_new_page(0, NodeList(hist)).val
    /\ result = Idle
    /\ last_key = None
    /\ checked = TRUE
    /\ fits = TRUE
    /\ overflow_checks = FALSE
    /\ seed = U64(0)
    /\ pgno_generator = create(U64(0))
    /\ issued = <<>>
    /\ mmap = <<>>

\* the first put of each order on the same page: put(k1, v1), and put(k2, v2)
PutFirst(new_pgno, k1, v1, k2, v2) ==
    /\ result = Idle
    /\ k1 # k2
    /\ result' = [op |-> "put_first", pgno |-> new_pgno,
                  k1 |-> k1, v1 |-> v1, k2 |-> k2, v2 |-> v2,
                  ret |-> put(Self, new_pgno, k1, v1),
                  other |-> put(Self, new_pgno, k2, v2)]
    /\ UNCHANGED <<page_vars, overflow_checks, store_vars>>

\* the second put of each order: put(k2, v2) after put(k1, v1), and put(k1, v1)
\* after put(k2, v2)
PutSecond ==
    /\ result.op = "put_first"
    /\ result' = [result EXCEPT
                    !.op = "put_put",
                    !.ret = put_next(result.ret, result.pgno, result.k2, result.v2),
                    !.other = put_next(result.other, result.pgno, result.k1, result.v1)]
    /\ UNCHANGED <<page_vars, overflow_checks, store_vars>>

OrderNext ==
    \/ \E new_pgno \in Pgnos, k1 \in Keys, k2 \in Keys,
          v1 \in OrderDatas, v2 \in OrderDatas :
          PutFirst(new_pgno, k1, v1, k2, v2)
    \/ PutSecond
    \/ Drop

OrderSpec == OrderInit /\ [][OrderNext]_vars


\* ---- vocabulary of the properties ----
\* the nodes the slots of a page dereference to, in slot order
Decoded(p) == collect_nodes(DataPage_from(p).val)
StrictlyAscending(nodes) ==
    \A i, j \in DOMAIN nodes : i < j => cmp(nodes[i].key, nodes[j].key) = "Less"
\* the (key, data) pairs of a node sequence
KV(nodes) == [i \in DOMAIN nodes |-> <<nodes[i].key, nodes[i].data>>]

IsPutResult == result.op = "put" /\ result.ret.tag = "Ok"

\* C1: after any sequence of puts from the empty page, the slots of the page
\* dereference, in slot order, to strictly ascending keys without duplicates.
C1_SlotsStrictlyAscending ==
    /\ Decoded(page).tag = "Ok"
    /\ StrictlyAscending(Decoded(page).val)

\* C2: after any sequence of puts from the empty page, get(k) returns the data
\* of the most recent put(k, _) for every key k that was put.
C2_GetReturnsLastPut ==
    \A k \in Keys : hist[k].tag = "Some" => get(Self, k) = Ok(hist[k].val)

\* C3: put(k, v1) directly followed by put(k, v2) leaves one node with key k,
\* get(k) = v2, and the number of nodes and every other node as after the
\* first put.
C3_UpsertOverwrites ==
    (IsPutResult /\ last_key = Some(result.key)) =>
        LET old == Decoded(page)
            new == Decoded(result.ret.val)
        IN /\ new.tag = "Ok"
           /\ Len(new.val) = Len(old.val)
           /\ Cardinality({i \in DOMAIN new.val : new.val[i].key = result.key}) = 1
           /\ get(DataPage_from(result.ret.val).val, result.key) = Ok(result.data)
           /\ \A i \in DOMAIN old.val :
                 old.val[i].key # result.key => KV(new.val)[i] = KV(old.val)[i]

\* C4: split of a page whose slots hold the ascending node sequence N yields
\* L = N[0..len/2] and R = N[len/2..] in the same order (so the halves
\* partition N, are disjoint and ordered, with |L| = len/2), carrying the
\* supplied page numbers.
C4_SplitHalves ==
    (result.op = "split" /\ Decoded(page).tag = "Ok"
       /\ StrictlyAscending(Decoded(page).val)) =>
        LET N == KV(Decoded(page).val)
            mid == Len(N) \div 2
        IN /\ result.ret.tag = "Ok"
           /\ Decoded(result.ret.val.left).tag = "Ok"
           /\ Decoded(result.ret.val.right).tag = "Ok"
           /\ LET L == KV(Decoded(result.ret.val.left).val)
                  R == KV(Decoded(result.ret.val.right).val)
              IN /\ L = SubSeq(N, 1, mid)
                 /\ R = SubSeq(N, mid + 1, Len(N))
                 /\ Len(L) = Len(N) \div 2
                 /\ Len(R) = Len(N) - Len(N) \div 2
                 /\ {L[i][1] : i \in DOMAIN L} \cap {R[i][1] : i \in DOMAIN R} = {}
                 /\ \A i \in DOMAIN L, j \in DOMAIN R : cmp(L[i][1], R[j][1]) = "Less"
           /\ result.ret.val.left.pgno = result.pgno_left
           /\ result.ret.val.right.pgno = result.pgno_right
C4_Witness ==
    /\ result.op = "split"
    /\ Decoded(page).tag = "Ok"
    /\ StrictlyAscending(Decoded(page).val)
    /\ Len(Decoded(page).val) = 3
    /\ result.pgno_left # result.pgno_right

\* C5: when has_space returned true before every put of a new key, the page
\* satisfies 0 <= lower <= upper <= 4080.
C5_CheckedPutsKeepBounds ==
    checked => (0 <= page.lower /\ page.lower <= page.upper
                  /\ page.upper <= PAGE_BUF_SIZE)

\* C6: put and split never mutate the source page: its pgno, flags, lower,
\* upper and body bytes are the same after the call, and so is the result of
\* get on it for every key.
C6_SourceUnchanged ==
    [][result'.op \in {"put", "split"} =>
          /\ page' = page
          /\ \A k \in Keys : get(DataPage_from(page').val, k) = get(Self, k)]_vars
C6_Witness ==
    /\ IsPutResult
    /\ result.ret.val.lower > page.lower
    /\ result.ret.val.data # page.data

\* C7: get(k) returns Err(KeyNotFound) on a page reached by puts none of which
\* used key k (a strict prefix or an extension of a stored key included).
C7_MissIsKeyNotFound ==
    \A k \in Keys : hist[k].tag = "None" => get(Self, k) = Err("KeyNotFound")

\* C8: a put whose nodes and 2-byte slots do not fit the 4080-byte body
\* returns a WriteFailed error.
C8_CapacityViolationIsError ==
    (result.op = "put"
       /\ Needed([hist EXCEPT ![result.key] = Some(result.data)]) > PAGE_BUF_SIZE)
      => result.ret.tag = "Err"

\* C9: has_space(node) is true iff upper - lower > packed_size(node).
C9_HasSpaceStrict ==
    result.op = "has_space" =>
        result.ret = Ok(page.upper - page.lower > PackedSize(result.key, result.data))

\* C10: read_node_at never panics: a read past the end of the body or
\* unrecognized flag bits give a typed failure.
C10_DecodeNeverPanics ==
    result.op = "read_node" => result.ret.tag # "Panic"

\* ---- what the code does guarantee while nothing overfills a body ----
\* the map the page of a put result is meant to hold
Intended == [hist EXCEPT ![result.key] = Some(result.data)]
\* a put whose nodes and slots fit returns a page
Fit_PutReturnsPage ==
    (fits /\ result.op = "put" /\ Needed(Intended) <= PAGE_BUF_SIZE) =>
        result.ret.tag = "Ok"
\* the statements of C1, C2, C3, C5, C7 hold of pages that were never overfilled
Fit_SlotsStrictlyAscending == fits => C1_SlotsStrictlyAscending
Fit_GetReturnsLastPut == fits => C2_GetReturnsLastPut
Fit_UpsertOverwrites ==
    (fits /\ result.op = "put" /\ Needed(Intended) <= PAGE_BUF_SIZE) =>
        C3_UpsertOverwrites
Fit_KeepBounds == fits => page.lower <= page.upper
Fit_MissIsKeyNotFound == fits => C7_MissIsKeyNotFound
\* the statement of C9 holds of pages with lower <= upper
Fit_HasSpaceStrict == page.lower <= page.upper => C9_HasSpaceStrict

\* C11: packing DataNode(k, d) and decoding the packed bytes at the offset
\* where write_new_page wrote them yields key k and data d, and the packed
\* length is 2 + 2 * W + len(k) + len(d), the value get_size reports.
C11_NodeRoundTrip ==
    result.op = "put" =>
        LET node == DataNode_from(result.key, result.data)
            written == write_new_page(result.pgno, <<node>>)
            decoded == read_node_from_offset(written.val.data, written.val.upper)
        IN /\ Len(pack(node)) = 2 + 2 * USIZE_N + Len(result.key) + Len(result.data)
           /\ Len(pack(node)) = get_size(node)
           /\ written.tag = "Ok"
           /\ written.val.upper = PAGE_BUF_SIZE - Len(pack(node))
           /\ decoded.tag = "Ok"
           /\ decoded.val.key = result.key
           /\ decoded.val.data = result.data
C11_Witness ==
    /\ result.op = "put"
    /\ Len(result.data) > Len(result.key)

\* the slot values of a page, read as the bytes at 2i
SlotAt(p, i) == read_u16_le(p.data, 2 * (i - 1)).val

\* C15: for a key-ordered node list whose nodes and slots fit the body,
\* write_new_page gives lower = 2n, upper = 4080 - the packed sizes, slot i in
\* little-endian at body offset 2i, node i packed at the offset slot i holds,
\* offsets strictly decreasing with i, and DataPage::from decodes the same list.
C15_RebuildRoundTrip ==
    (result.op = "put" /\ Needed(Intended) <= PAGE_BUF_SIZE) =>
        LET nodes == NodeList(Intended)
            n == Len(nodes)
            w == write_new_page(result.pgno, nodes)
            p == w.val
        IN /\ w.tag = "Ok"
           /\ p.pgno = result.pgno
           /\ p.lower = 2 * n
           /\ p.upper = PAGE_BUF_SIZE
                          - Sum([i \in 1..n |-> get_size(nodes[i])], 1..n)
           /\ \A i \in 1..n :
                 /\ SubSeq(p.data, 2 * i - 1, 2 * i)
                      = to_le_bytes(PAGE_BUF_SIZE
                          - Sum([j \in 1..i |-> get_size(nodes[j])], 1..i), U16_N)
                 /\ SubSeq(p.data, SlotAt(p, i) + 1, SlotAt(p, i) + get_size(nodes[i]))
                      = pack(nodes[i])
                 /\ i > 1 => SlotAt(p, i) < SlotAt(p, i - 1)
           /\ n > 0 => SlotAt(p, n) = p.upper
           /\ DataPage_from(p).tag = "Ok"
           /\ Decoded(p) = Ok(nodes)
C15_Witness ==
    /\ result.op = "put"
    /\ Needed(Intended) <= PAGE_BUF_SIZE
    /\ Len(NodeList(Intended)) = 3
\* while no page was overfilled, put hands write_new_page exactly that list
Fit_PutRebuildsIntended ==
    (fits /\ result.op = "put" /\ Needed(Intended) <= PAGE_BUF_SIZE) =>
        result.ret = write_new_page(result.pgno, NodeList(Intended))

\* the child of the first node, in ascending key order, whose max_key >= key
Route(nodes, key) ==
    nodes[Min({j \in DOMAIN nodes :
                 Key_cmp(nodes[j].max_key, key) \in {"Greater", "Equal"}})].pgno
\* the scenario's answers: "b" and "d" go to P1, "e" to P2, "z" to P3
ScenarioChild(key) ==
    IF key \in {<<98>>, <<100>>} THEN U64(1)
    ELSE IF key = <<101>> THEN U64(2) ELSE U64(3)

\* C12: BranchPage::get(key) returns the child pgno of the first node in
\* ascending key order whose max_key >= key, the sentinel being greater than
\* every normal key; on separators "d", "m" and the sentinel with children
\* P1, P2, P3: get("b") = P1, get("d") = P1, get("e") = P2, get("z") = P3.
C12_BranchRouting ==
    result.op = "branch_get" =>
        /\ result.ret = Ok(Route(BranchNodes, Normal(result.key)))
        /\ result.ret = Ok(ScenarioChild(result.key))
\* upper-bound routing over Key's ordering gives the scenario's answers
RouteMatchesScenario ==
    \A key \in BranchKeys : Route(BranchNodes, Normal(key)) = ScenarioChild(key)

\* C13: every get_free returns counter + 1 and advances the counter; the
\* page numbers returned are strictly increasing, never repeat and are all
\* greater than the seed; LeafPage::split gives its left and right pages two
\* distinct fresh page numbers with left < right.
C13_FreshIncreasing ==
    /\ \A i \in DOMAIN issued :
          /\ U64_cmp(seed, issued[i]) = "Less"
          /\ \A j \in DOMAIN issued : i < j => U64_cmp(issued[i], issued[j]) = "Less"
    /\ result.op = "get_free" =>
          /\ result.ret.tag = "Ok"
          /\ U64_cmp(result.before, result.ret.val) = "Less"
          /\ result.ret.val = mul_add(result.before, 1, 1).val
          /\ pgno_generator.pgno = result.ret.val
    /\ result.op = "leaf_split" =>
          /\ result.ret.tag = "Ok"
          /\ U64_cmp(result.ret.val.left.pgno, result.ret.val.right.pgno) = "Less"
          /\ result.ret.val.left.pgno = issued[Len(issued) - 1]
          /\ result.ret.val.right.pgno = issued[Len(issued)]
\* the statement of C13 for seeds the calls of a run cannot carry up to
\* u64::MAX, and splits of an empty leaf
C13_BelowMax ==
    (/\ U64_cmp(seed, U64_below_max(MaxIssued)) = "Less"
     /\ result.op = "leaf_split" => result.nodes = <<>>) => C13_FreshIncreasing

\* C14: read_from_mmap(mmap, pgno) returns the out-of-bounds error, without a
\* crash, whenever pgno * 4096 + 4096 exceeds the mapped length (also when
\* pgno * 4096 overflows the machine word); otherwise it returns the page
\* whose header fields and body are the 4096 bytes at that offset.
C14_ReadBounds ==
    result.op = "read_from_mmap" =>
        IF U64_cmp(result.pgno, U64(Len(mmap) \div PAGE_SIZE)) = "Less"
        THEN /\ result.ret.tag = "Ok"
             /\ page_bytes(result.ret.val)
                  = SubSeq(mmap, U64_index(result.pgno) * PAGE_SIZE + 1,
                           U64_index(result.pgno) * PAGE_SIZE + PAGE_SIZE)
        ELSE result.ret = Err("UnexpectedEof")
\* the claim's statement for page numbers whose byte range does not overflow
C14_NoOverflow ==
    (/\ result.op = "read_from_mmap"
     /\ ~overflowing_mul(result.pgno, PAGE_SIZE).overflow
     /\ ~overflowing_add(overflowing_mul(result.pgno, PAGE_SIZE).val,
                         PAGE_SIZE).overflow) => C14_ReadBounds

\* while no page was overfilled, the page is the rebuild of the key-to-data map
Fit_PageIsRebuildOfMap ==
    fits => page = write_new_page(page.pgno, NodeList(hist)).val

\* C16: for distinct keys k1, k2 and a page within capacity, put(k1, v1) then
\* put(k2, v2) gives a page with the same lower, upper and body as put(k2, v2)
\* then put(k1, v1) with the same target pgno.
C16_OrderIndependent ==
    result.op = "put_put" =>
        \/ /\ result.ret.tag = "Ok" /\ result.other.tag = "Ok"
           /\ result.ret.val.lower = result.other.val.lower
           /\ result.ret.val.upper = result.other.val.upper
           /\ result.ret.val.data = result.other.val.data
        \/ /\ result.ret.tag # "Ok" /\ result.other.tag # "Ok"
\* the map after one put, and after both
After1(k, v) == [hist EXCEPT ![k] = Some(v)]
After2 == [hist EXCEPT ![result.k1] = Some(result.v1), ![result.k2] = Some(result.v2)]
\* both orders return the same result when the page after each first put
\* fits the body too; when the final map fits as well, that result is the
\* page write_new_page builds from the final map
Fit_OrderIndependent ==
    (/\ result.op = "put_put"
     /\ Needed(After1(result.k1, result.v1)) <= PAGE_BUF_SIZE
     /\ Needed(After1(result.k2, result.v2)) <= PAGE_BUF_SIZE) =>
        /\ result.ret = result.other
        /\ Needed(After2) <= PAGE_BUF_SIZE =>
              result.ret = write_new_page(result.pgno, NodeList(After2))

====
